---- MODULE Spec2Model ----
(***************************************************************************)
(* Chaincode event stream adapter of the fabric-gateway client:            *)
(* newChaincodeEvents (node/src/chaincodeevent.ts) wraps a closeable       *)
(* asynchronous stream of ChaincodeEventsResponse batches in an async      *)
(* generator that yields one ChaincodeEvent per record, plus a close()     *)
(* that sets a captured flag and closes the wrapped stream.                *)
(*                                                                         *)
(* The async generator is modelled by its ECMAScript state (pc) and the    *)
(* position of its two loops.  The wrapped stream is an external source:   *)
(* what it answers to a pull (a batch, its end, an error) is a             *)
(* nondeterministic input.  A single consumer issues one request at a      *)
(* time.  Optional wire fields are sequences of length 0 (absent:          *)
(* null/undefined) or 1 (present).                                         *)
(***************************************************************************)
EXTENDS Integers, Sequences, FiniteSets, TLC

VARIABLES
    closed,          \* the captured flag `closed` of newChaincodeEvents
    pc,              \* state of the async generator
    idx,             \* records of the current batch the inner loop has yielded
    delivered,       \* history: the batches the upstream has answered pulls with
    source,          \* upstream stream: "open", "ended" or "failed"
    sourceError,     \* the error the upstream raised, if any
    emitted,         \* history: the events yielded to the consumer, with provenance
    last,            \* outcome of the consumer's latest next(): none/value/done/error
    thrown,          \* the error the generator rejected a next() with, if any
    errors,          \* number of next() requests that were rejected
    closedAtCall,    \* value of `closed` when the latest next() was called
    everRequested,   \* the consumer has called next() at least once
    abandoned,       \* the consumer has called return() on the generator
    pulls,           \* number of next() calls made on the upstream iterator
    requestPulls,    \* upstream pulls made by the latest next() request
    upstreamCloses,  \* number of responses.close() invocations
    adapterCloses,   \* number of close() invocations on the adapter
    iteratorReturns, \* number of return() invocations on the upstream iterator
    closeMark        \* snapshot taken by the first close() on the adapter

vars == <<closed, pc, idx, delivered, source, sourceError, emitted, last, thrown,
          errors, closedAtCall, everRequested, abandoned, pulls, requestPulls,
          upstreamCloses, adapterCloses, iteratorReturns, closeMark>>

----------------------------------------------------------------------------
(* Bounds *)

MaxBlock == 1
MaxEvents == 2
MaxClose == 2

----------------------------------------------------------------------------
(* Optional values and the two JavaScript defaulting operators *)

None == << >>
Some(v) == <<v>>
Option(S) == {None} \cup {Some(v) : v \in S}

\* a ?? d : d only when a is null or undefined
NullishCoalesce(a, d) == IF a = None THEN d ELSE a[1]

\* a || d, for an operand that is an object when present (an array, a
\* Uint8Array): an object is truthy even when it is empty
LogicalOr(a, d) == IF a = None THEN d ELSE a[1]

SeqUpTo(S, n) == UNION {[1..k -> S] : k \in 0..n}

----------------------------------------------------------------------------
(* Wire messages the upstream can deliver *)

RawFull == [chaincodeId |-> Some("cc1"), eventName |-> Some("ev1"),
            txId |-> Some("t1"), payload |-> Some(<<1, 2>>)]
RawBare == [chaincodeId |-> None, eventName |-> None,
            txId |-> None, payload |-> None]
RawSample == {RawFull, RawBare}

RawAll == [chaincodeId : Option({"cc1"}), eventName : Option({"", "ev1"}),
           txId : Option({"t1"}), payload : Option({<< >>, <<9>>})]

StreamBatches == [blockNumber : Option(0..MaxBlock),
                  events : Option(SeqUpTo(RawSample, MaxEvents))]

\* batches that differ in their block number and their length only
LiveBatches == [blockNumber : Option(0..MaxBlock),
                events : Option(SeqUpTo({RawFull}, MaxEvents))]

DecodeBatches == [blockNumber : Option(0..MaxBlock),
                  events : Option({<< >>} \cup {<<r>> : r \in RawAll})]

Errors == {"UNAVAILABLE", "CANCELLED"}

\* block number on the wire: an unset uint64 field reads as zero
WireBlock(b) == IF b.blockNumber = None THEN 0 ELSE b.blockNumber[1]

\* the gateway sends blocks in strictly increasing order
InOrder(b) ==
    IF delivered = << >> THEN TRUE
    ELSE WireBlock(b) > WireBlock(delivered[Len(delivered)])

----------------------------------------------------------------------------
(* newChaincodeEvents: decoding *)

BlockNumberOf(response) == NullishCoalesce(response.blockNumber, 0)

EventsOf(response) == LogicalOr(response.events, << >>)

\* mutant: the transaction id and the chaincode id change places
newChaincodeEventSwapped(blockNumber, event) ==
    [blockNumber   |-> blockNumber,
     chaincodeId   |-> NullishCoalesce(event.txId, ""),
     eventName     |-> NullishCoalesce(event.eventName, ""),
     transactionId |-> NullishCoalesce(event.chaincodeId, ""),
     payload       |-> LogicalOr(event.payload, << >>)]

newChaincodeEvent(blockNumber, event) ==
    [blockNumber   |-> blockNumber,
     chaincodeId   |-> NullishCoalesce(event.chaincodeId, ""),
     eventName     |-> NullishCoalesce(event.eventName, ""),
     transactionId |-> NullishCoalesce(event.txId, ""),
     payload       |-> LogicalOr(event.payload, << >>)]

\* mutant: the inner loop skips every other record
AdvanceSkip(i) == i + 2

\* mutant: the inner loop does not move on
AdvanceStuck(i) == i

\* the inner loop's iterator moves on by one record: i records yielded so far
Advance(i) == i + 1

\* mutant: the check on a pulled batch is missing
ClosedCheckMissing == FALSE

\* the check made on every batch pulled: if (closed) return
ClosedCheck == closed

\* mutant: the generator closes the upstream when its loop ends
CallsCloseOnEnd(op) == IF op \in {"close", "end"} THEN 1 ELSE 0

\* mutant: close() closes the upstream only the first time
CallsCloseOnce(op) == IF op = "close" /\ ~closed THEN 1 ELSE 0

\* number of responses.close() calls the handler of op makes: only close()
\* of the adapter calls it
CallsClose(op) == IF op = "close" THEN 1 ELSE 0

\* what the generator yields for record i of batch number n
Yielded(n, response, i) ==
    [batch |-> n, index |-> i,
     event |-> newChaincodeEvent(BlockNumberOf(response), EventsOf(response)[i])]

----------------------------------------------------------------------------
Init ==
    /\ closed = FALSE
    /\ pc = "suspendedStart"
    /\ idx = 0
    /\ delivered = << >>
    /\ source = "open"
    /\ sourceError = None
    /\ emitted = << >>
    /\ last = "none"
    /\ thrown = None
    /\ errors = 0
    /\ closedAtCall = FALSE
    /\ everRequested = FALSE
    /\ abandoned = FALSE
    /\ pulls = 0
    /\ requestPulls = 0
    /\ upstreamCloses = 0
    /\ adapterCloses = 0
    /\ iteratorReturns = 0
    /\ closeMark = None

Response == delivered[Len(delivered)]

\* a next() request is in flight: the generator awaits the upstream
InFlight == pc = "awaiting"

\* next() on the generator before its first run: the for await loop starts
\* and pulls the first batch
RequestStart ==
    /\ pc = "suspendedStart"
    /\ pc' = "awaiting"
    /\ pulls' = pulls + 1
    /\ requestPulls' = 1
    /\ closedAtCall' = closed
    /\ everRequested' = TRUE
    /\ upstreamCloses' = upstreamCloses + CallsClose("next")
    /\ UNCHANGED <<closed, idx, delivered, source, sourceError, emitted, last,
                   thrown, errors, abandoned, adapterCloses, iteratorReturns,
                   closeMark>>

\* next() on the generator suspended at the yield: the inner loop goes on
\* with the next record of the batch, or the outer loop pulls the next batch
RequestResume ==
    /\ pc = "suspendedYield"
    /\ closedAtCall' = closed
    /\ everRequested' = TRUE
    /\ IF idx < Len(EventsOf(Response))
       THEN /\ idx' = Advance(idx)
            /\ emitted' = Append(emitted, Yielded(Len(delivered), Response, idx + 1))
            /\ last' = "value"
            /\ requestPulls' = 0
            /\ UNCHANGED <<pc, pulls>>
       ELSE /\ pc' = "awaiting"
            /\ pulls' = pulls + 1
            /\ requestPulls' = 1
            /\ UNCHANGED <<idx, emitted, last>>
    /\ upstreamCloses' = upstreamCloses + CallsClose("next")
    /\ UNCHANGED <<closed, delivered, source, sourceError, thrown, errors,
                   abandoned, adapterCloses, iteratorReturns, closeMark>>

\* next() on the completed generator
RequestCompleted ==
    /\ pc = "completed"
    /\ closedAtCall' = closed
    /\ everRequested' = TRUE
    /\ last' = "done"
    /\ requestPulls' = 0
    /\ upstreamCloses' = upstreamCloses + CallsClose("next")
    /\ UNCHANGED <<closed, pc, idx, delivered, source, sourceError, emitted,
                   thrown, errors, abandoned, pulls, adapterCloses,
                   iteratorReturns, closeMark>>

\* mutant: a batch without events ends the sequence
ReceiveEndsOnEmpty(b) ==
    /\ pc = "awaiting"
    /\ source = "open"
    /\ InOrder(b)
    /\ delivered' = Append(delivered, b)
    /\ IF ClosedCheck \/ Len(EventsOf(b)) = 0
       THEN /\ pc' = "completed"
            /\ last' = "done"
            /\ iteratorReturns' = iteratorReturns + 1
            /\ UNCHANGED <<idx, emitted, pulls, requestPulls>>
       ELSE /\ pc' = "suspendedYield"
            /\ idx' = Advance(0)
            /\ emitted' = Append(emitted, Yielded(Len(delivered'), b, 1))
            /\ last' = "value"
            /\ UNCHANGED <<iteratorReturns, pulls, requestPulls>>
    /\ upstreamCloses' = upstreamCloses + CallsClose("batch")
    /\ UNCHANGED <<closed, source, sourceError, thrown, errors, closedAtCall,
                   everRequested, abandoned, adapterCloses, closeMark>>

\* the upstream answers the pending pull with batch b
Receive(b) ==
    /\ pc = "awaiting"
    /\ source = "open"
    /\ InOrder(b)
    /\ delivered' = Append(delivered, b)
    /\ IF ClosedCheck
       THEN \* return inside for await: the upstream iterator is returned
            /\ pc' = "completed"
            /\ last' = "done"
            /\ iteratorReturns' = iteratorReturns + 1
            /\ UNCHANGED <<idx, emitted, pulls, requestPulls>>
       ELSE IF Len(EventsOf(b)) > 0
       THEN /\ pc' = "suspendedYield"
            /\ idx' = Advance(0)
            /\ emitted' = Append(emitted, Yielded(Len(delivered'), b, 1))
            /\ last' = "value"
            /\ UNCHANGED <<iteratorReturns, pulls, requestPulls>>
       ELSE \* nothing to yield: the outer loop pulls again
            /\ idx' = 0
            /\ pulls' = pulls + 1
            /\ requestPulls' = requestPulls + 1
            /\ UNCHANGED <<pc, emitted, last, iteratorReturns>>
    /\ upstreamCloses' = upstreamCloses + CallsClose("batch")
    /\ UNCHANGED <<closed, source, sourceError, thrown, errors, closedAtCall,
                   everRequested, abandoned, adapterCloses, closeMark>>

Deliver == \E b \in StreamBatches : Receive(b)

DeliverLive == \E b \in LiveBatches : Receive(b)

DeliverDecode == \E b \in DecodeBatches : delivered = << >> /\ Receive(b)

\* mutant: at the upstream's end the generator can be started again
UpstreamEndRestart ==
    /\ pc = "awaiting"
    /\ source = "open"
    /\ source' = "ended"
    /\ pc' = "suspendedStart"
    /\ last' = "done"
    /\ upstreamCloses' = upstreamCloses + CallsClose("end")
    /\ UNCHANGED <<closed, idx, delivered, sourceError, emitted, thrown, errors,
                   closedAtCall, everRequested, abandoned, pulls, requestPulls,
                   adapterCloses, iteratorReturns, closeMark>>

\* the upstream answers the pending pull with its end
UpstreamEnd ==
    /\ pc = "awaiting"
    /\ source = "open"
    /\ source' = "ended"
    /\ pc' = "completed"
    /\ last' = "done"
    /\ upstreamCloses' = upstreamCloses + CallsClose("end")
    /\ UNCHANGED <<closed, idx, delivered, sourceError, emitted, thrown, errors,
                   closedAtCall, everRequested, abandoned, pulls, requestPulls,
                   adapterCloses, iteratorReturns, closeMark>>

\* mutant: the error of the upstream is swallowed, the sequence just ends
RejectionSwallowed(e) == None

\* what the generator does with an error e of the upstream: it has no
\* try/catch, the pending next() is rejected with e
Rejection(e) == Some(e)

\* the upstream answers the pending pull with an error
UpstreamError ==
    \E e \in Errors :
        /\ pc = "awaiting"
        /\ source = "open"
        /\ source' = "failed"
        /\ sourceError' = Some(e)
        /\ pc' = "completed"
        /\ thrown' = Rejection(e)
        /\ last' = IF thrown' = None THEN "done" ELSE "error"
        /\ errors' = IF thrown' = None THEN errors ELSE errors + 1
        /\ upstreamCloses' = upstreamCloses + CallsClose("error")
        /\ UNCHANGED <<closed, idx, delivered, emitted, closedAtCall,
                       everRequested, abandoned, pulls, requestPulls,
                       adapterCloses, iteratorReturns, closeMark>>

\* mutant: close() flips the flag instead of setting it
CloseToggle ==
    /\ adapterCloses < MaxClose
    /\ closed' = ~closed
    /\ upstreamCloses' = upstreamCloses + CallsClose("close")
    /\ adapterCloses' = adapterCloses + 1
    /\ closeMark' = IF closeMark = None
                    THEN Some([pc |-> pc, emitted |-> Len(emitted),
                               pulled |-> Len(delivered),
                               midBatch |-> /\ pc = "suspendedYield"
                                            /\ idx < Len(EventsOf(Response)),
                               requested |-> everRequested])
                    ELSE closeMark
    /\ UNCHANGED <<pc, idx, delivered, source, sourceError, emitted, last,
                   thrown, errors, closedAtCall, everRequested, abandoned, pulls,
                   requestPulls, iteratorReturns>>

\* close() of the adapter
Close ==
    /\ adapterCloses < MaxClose
    /\ closed' = TRUE
    /\ upstreamCloses' = upstreamCloses + CallsClose("close")
    /\ adapterCloses' = adapterCloses + 1
    /\ closeMark' = IF closeMark = None
                    THEN Some([pc |-> pc, emitted |-> Len(emitted),
                               pulled |-> Len(delivered),
                               midBatch |-> /\ pc = "suspendedYield"
                                            /\ idx < Len(EventsOf(Response)),
                               requested |-> everRequested])
                    ELSE closeMark
    /\ UNCHANGED <<pc, idx, delivered, source, sourceError, emitted, last,
                   thrown, errors, closedAtCall, everRequested, abandoned, pulls,
                   requestPulls, iteratorReturns>>

\* the consumer leaves its loop early: return() on the generator, which
\* completes it; leaving the for await loop returns the upstream iterator
Abandon ==
    /\ pc \in {"suspendedStart", "suspendedYield"}
    /\ pc' = "completed"
    /\ abandoned' = TRUE
    /\ iteratorReturns' = IF pc = "suspendedYield" THEN iteratorReturns + 1
                          ELSE iteratorReturns
    /\ upstreamCloses' = upstreamCloses + CallsClose("return")
    /\ UNCHANGED <<closed, idx, delivered, source, sourceError, emitted, last,
                   thrown, errors, closedAtCall, everRequested, pulls,
                   requestPulls, adapterCloses, closeMark>>

Next ==
    \/ RequestStart
    \/ RequestResume
    \/ RequestCompleted
    \/ Deliver
    \/ UpstreamEnd
    \/ UpstreamError
    \/ Close
    \/ Abandon

Spec == Init /\ [][Next]_vars

NextDecode ==
    \/ RequestStart
    \/ RequestResume
    \/ RequestCompleted
    \/ DeliverDecode
    \/ UpstreamEnd
    \/ UpstreamError
    \/ Close
    \/ Abandon

SpecDecode == Init /\ [][NextDecode]_vars

NextLive ==
    \/ RequestStart
    \/ RequestResume
    \/ RequestCompleted
    \/ DeliverLive
    \/ UpstreamEnd
    \/ UpstreamError
    \/ Close
    \/ Abandon

\* the upstream answers the pending pull, one way or another
Respond == DeliverLive \/ UpstreamEnd \/ UpstreamError

\* the wrapped stream's close() unblocks its pending receive: once the adapter
\* is closed, a pending pull is answered
SpecLive == Init /\ [][NextLive]_vars /\ WF_vars(closed /\ Respond)

----------------------------------------------------------------------------
(* What the upstream delivered, read off the wire *)

RecordsOf(b) == IF b.events = None THEN << >> ELSE b.events[1]

RECURSIVE ConcatFrom(_, _)
\* the records of batches n.. of a stream, in batch order, each with its place
ConcatFrom(batches, n) ==
    IF n > Len(batches) THEN << >>
    ELSE [i \in 1..Len(RecordsOf(batches[n])) |->
             [batch |-> n, index |-> i, blockNumber |-> WireBlock(batches[n]),
              record |-> RecordsOf(batches[n])[i]]]
         \o ConcatFrom(batches, n + 1)

Concat(batches) == ConcatFrom(batches, 1)

\* a field that is present on the wire is passed through
Passed(field, value) == field # None => value = field[1]

\* event e carries the present fields of record r
Carries(e, r) ==
    /\ Passed(r.chaincodeId, e.chaincodeId)
    /\ Passed(r.eventName, e.eventName)
    /\ Passed(r.txId, e.transactionId)
    /\ Passed(r.payload, e.payload)

\* emitted entry x is the record at place c of the stream
IsRecord(x, c) ==
    /\ x.batch = c.batch
    /\ x.index = c.index
    /\ x.event.blockNumber = c.blockNumber
    /\ Carries(x.event, c.record)

----------------------------------------------------------------------------
(* Claims *)

\* C1: when the upstream ends by itself and the adapter was drained to the
\* end without close(), the emitted sequence is the concatenation of the
\* batches' records in batch order, each tagged with its batch's block number.
C1_DrainedIsConcatenation ==
    (pc = "completed" /\ source = "ended" /\ ~closed /\ ~abandoned) =>
        /\ Len(emitted) = Len(Concat(delivered))
        /\ \A k \in DOMAIN emitted : IsRecord(emitted[k], Concat(delivered)[k])

C1_Witness ==
    /\ pc = "completed" /\ source = "ended" /\ ~closed /\ ~abandoned
    /\ Len(delivered) = 2
    /\ Len(RecordsOf(delivered[1])) = 1
    /\ Len(RecordsOf(delivered[2])) = 2
    /\ Len(emitted) = 3

\* C2: in every reachable state the emitted events are ordered by block
\* number, then by record index within the batch; no record is emitted twice,
\* and every emitted event is the record at its place in its batch.
C2_EmissionOrdered ==
    /\ \A i, j \in DOMAIN emitted :
           i < j =>
               \/ emitted[i].event.blockNumber < emitted[j].event.blockNumber
               \/ /\ emitted[i].event.blockNumber = emitted[j].event.blockNumber
                  /\ emitted[i].batch = emitted[j].batch
                  /\ emitted[i].index < emitted[j].index
    /\ \A k \in DOMAIN emitted :
           /\ emitted[k].batch \in DOMAIN delivered
           /\ emitted[k].index \in DOMAIN RecordsOf(delivered[emitted[k].batch])
           /\ Carries(emitted[k].event,
                      RecordsOf(delivered[emitted[k].batch])[emitted[k].index])

C2_Witness ==
    /\ Len(emitted) = 3
    /\ emitted[1].batch = 1
    /\ emitted[3].batch = 2
    /\ closed

\* C3 (as claimed): after a close() made when some but not all records of the
\* current batch had been received, nothing more is emitted, and the upstream
\* was closed once.
C3_CloseMidBatchHalts ==
    (closeMark # None /\ closeMark[1].midBatch /\ adapterCloses = 1) =>
        /\ Len(emitted) = closeMark[1].emitted
        /\ upstreamCloses = 1

\* C4 (as claimed): after a close() made before any element was requested,
\* every completed request returned end-of-stream, nothing was emitted, and
\* the upstream was closed once.
C4_CloseBeforeRequestIsEmpty ==
    (closeMark # None /\ ~closeMark[1].requested /\ adapterCloses = 1) =>
        /\ emitted = << >>
        /\ upstreamCloses = 1
        /\ last \in {"none", "done"}

\* C5 (as claimed): a next request made after close() never surfaces an
\* error to the consumer.
C5_UseAfterCloseNoError ==
    (closedAtCall /\ ~InFlight) => last # "error"

\* C6: as long as close() of the adapter has not been called, close of the
\* upstream has not been invoked: neither the upstream's end nor its error
\* closes it.
C6_OnlyCloseClosesUpstream ==
    adapterCloses = 0 => upstreamCloses = 0

C6_Witness ==
    /\ adapterCloses = 0
    /\ pc = "completed"
    /\ source = "ended"
    /\ Len(emitted) >= 1

C6_WitnessError ==
    /\ adapterCloses = 0
    /\ pc = "completed"
    /\ source = "failed"

\* C7: every close() of the adapter leaves the flag true and invokes the
\* upstream's close once, so k calls make k upstream closes; a close() of an
\* adapter that is closed already changes nothing else, so requests behave
\* after k calls as after one.
C7_CloseRepeatable ==
    /\ [](upstreamCloses = adapterCloses /\ (adapterCloses >= 1 <=> closed))
    /\ [][(adapterCloses' # adapterCloses /\ closed) =>
             UNCHANGED <<closed, pc, idx, delivered, source, sourceError,
                         emitted, last, thrown, errors, closedAtCall,
                         everRequested, abandoned, pulls, requestPulls,
                         iteratorReturns, closeMark>>]_vars

C7_Witness ==
    /\ adapterCloses = 2
    /\ upstreamCloses = 2
    /\ closeMark # None
    /\ closeMark[1].midBatch
    /\ pc = "completed"

\* C8: an error of the upstream is the outcome of the request whose pull it
\* answers, unchanged; the upstream is not pulled again; and every record of
\* every batch pulled before it has been emitted by then.
C8_ErrorPropagated ==
    /\ [](source = "failed" =>
             /\ thrown = sourceError
             /\ errors = 1
             /\ pc = "completed"
             /\ pulls = Len(delivered) + 1
             /\ Len(emitted) = Len(Concat(delivered)))
    /\ [](source # "failed" => (errors = 0 /\ thrown = None))
    /\ [][(source # "failed" /\ source' = "failed") =>
             (InFlight /\ last' = "error" /\ emitted' = emitted)]_vars

C8_Witness ==
    /\ source = "failed"
    /\ ~closed
    /\ last = "error"
    /\ Len(delivered) = 2
    /\ Len(emitted) = 3

\* C9: once the adapter is closed while a request awaits the upstream, and
\* the upstream answers, the request completes, with end-of-stream or the
\* upstream's error, and emits nothing.
C9_InFlightCancelled ==
    /\ (InFlight /\ closed) ~> (~InFlight /\ last \in {"done", "error"})
    /\ [][(InFlight /\ closed /\ ~InFlight') =>
             (emitted' = emitted /\ last' \in {"done", "error"})]_vars

C9_Witness ==
    /\ closeMark # None
    /\ closeMark[1].pc = "awaiting"
    /\ Len(delivered) > closeMark[1].pulled
    /\ Len(RecordsOf(delivered[Len(delivered)])) > 0
    /\ pc = "completed"
    /\ last = "done"

\* the decoded value of a wire field: its default when absent, itself otherwise
DefaultedOrPassed(field, value, default) ==
    value = IF field = None THEN default ELSE field[1]

\* C10: decoding defaults what is absent and passes through what is present:
\* an absent block number is 0, an absent event list gives no events, an
\* absent chaincodeId, eventName or transactionId is the empty string, an
\* absent payload is the empty byte sequence; decoding raises no error.
C10_DefensiveDecoding ==
    /\ \A k \in DOMAIN emitted :
           /\ emitted[k].batch \in DOMAIN delivered
           /\ delivered[emitted[k].batch].events # None
           /\ emitted[k].index \in DOMAIN RecordsOf(delivered[emitted[k].batch])
           /\ LET b == delivered[emitted[k].batch]
                  r == RecordsOf(b)[emitted[k].index]
                  e == emitted[k].event
              IN  /\ DefaultedOrPassed(b.blockNumber, e.blockNumber, 0)
                  /\ DefaultedOrPassed(r.chaincodeId, e.chaincodeId, "")
                  /\ DefaultedOrPassed(r.eventName, e.eventName, "")
                  /\ DefaultedOrPassed(r.txId, e.transactionId, "")
                  /\ DefaultedOrPassed(r.payload, e.payload, << >>)
    /\ errors > 0 => source = "failed"

C10_Witness ==
    /\ Len(emitted) = 1
    /\ delivered[1].blockNumber = None
    /\ delivered[1].events[1][1] =
           [chaincodeId |-> None, eventName |-> None, txId |-> None,
            payload |-> None]
    /\ emitted[1].event = [blockNumber |-> 0, chaincodeId |-> "",
                           eventName |-> "", transactionId |-> "",
                           payload |-> << >>]

C10_WitnessNoList ==
    /\ Len(delivered) = 1
    /\ delivered[1].events = None
    /\ pc = "completed"
    /\ source = "ended"
    /\ emitted = << >>
    /\ errors = 0

\* C11 (as claimed): a next request made while the closed flag is true ends
\* the sequence at once: it completes with end-of-stream and neither pulls
\* from nor waits on the upstream.
C11_ClosedRequestEndsAtOnce ==
    closedAtCall => (~InFlight /\ requestPulls = 0 /\ last = "done")

\* the number of emitted records of batch n
EmittedOf(n) == Cardinality({k \in DOMAIN emitted : emitted[k].batch = n})

\* C12: production is lazy: the upstream is pulled only while a request is
\* served and only once every record pulled so far has been emitted; a step
\* emits at most one event and that event completes the request; so only the
\* batch pulled last can have records not emitted, and without a request
\* nothing is emitted and nothing is pulled.
C12_LazyNoBuffering ==
    /\ [](\A n \in DOMAIN delivered :
             n < Len(delivered) => EmittedOf(n) = Len(RecordsOf(delivered[n])))
    /\ [](pulls = Len(delivered) + (IF InFlight \/ source # "open" THEN 1 ELSE 0))
    /\ [][pulls' # pulls =>
             /\ pulls' = pulls + 1
             /\ InFlight'
             /\ emitted' = emitted
             /\ Len(emitted) = Len(Concat(delivered'))]_vars
    /\ [][emitted' # emitted =>
             /\ Len(emitted') = Len(emitted) + 1
             /\ ~InFlight'
             /\ last' = "value"
             /\ pulls' = pulls]_vars
    /\ [][(~InFlight /\ (emitted' # emitted \/ pulls' # pulls)) =>
             (everRequested' /\ closedAtCall' = closed /\ adapterCloses' = adapterCloses
              /\ ~abandoned')]_vars

C12_Witness ==
    /\ pc = "suspendedYield"
    /\ Len(delivered) = 2
    /\ pulls = 2
    /\ EmittedOf(1) = 2
    /\ EmittedOf(2) = 1
    /\ Len(RecordsOf(delivered[2])) = 2
    /\ ~InFlight

\* C13: when the upstream signals its end, the pending request completes with
\* end-of-stream, and so does every later request, without emitting an event
\* and without pulling from the upstream again.
C13_EndIsFinal ==
    /\ [](source = "ended" =>
             (pc = "completed" /\ last = "done" /\ pulls = Len(delivered) + 1))
    /\ [][(source = "open" /\ source' = "ended") =>
             (InFlight /\ ~InFlight' /\ emitted' = emitted /\ pulls' = pulls)]_vars
    /\ [][source = "ended" =>
             (source' = "ended" /\ emitted' = emitted /\ pulls' = pulls
              /\ delivered' = delivered /\ errors' = errors)]_vars

C13_Witness ==
    /\ source = "ended"
    /\ requestPulls = 0
    /\ last = "done"
    /\ Len(emitted) = 3
    /\ ~closed

\* C14: the closed flag is false when the adapter is created, becomes true
\* only by a close() of the adapter, and is never reset: no request, batch,
\* end or error of the upstream, or return() of the consumer changes it.
C14_ClosedMonotone ==
    /\ ~closed
    /\ [][closed => closed']_vars
    /\ [][closed' # closed => adapterCloses' = adapterCloses + 1]_vars
    /\ [][adapterCloses' = adapterCloses => closed' = closed]_vars

C14_Witness ==
    /\ closed
    /\ adapterCloses = 1
    /\ closeMark # None
    /\ closeMark[1].pc = "suspendedYield"
    /\ Len(emitted) > closeMark[1].emitted
    /\ source = "ended"
    /\ last = "done"
    /\ requestPulls = 0

\* C15: every event emitted after close() is a record of the one batch that
\* was pulled, and had passed the check of the flag, before close(); no
\* record of a batch delivered after close() is emitted, and no more than
\* the records of that batch.
C15_PostCloseEmissionBounded ==
    closeMark # None =>
        /\ \A k \in DOMAIN emitted :
               k > closeMark[1].emitted =>
                   /\ closeMark[1].pc = "suspendedYield"
                   /\ emitted[k].batch = closeMark[1].pulled
        /\ \A k \in DOMAIN emitted : emitted[k].batch <= closeMark[1].pulled
        /\ \A n \in DOMAIN delivered :
               EmittedOf(n) <= Len(RecordsOf(delivered[n]))
        /\ \A n \in DOMAIN delivered :
               n > closeMark[1].pulled => pc = "completed"

C15_Witness ==
    /\ closeMark # None
    /\ closeMark[1].midBatch
    /\ Len(emitted) > closeMark[1].emitted
    /\ Len(delivered) > closeMark[1].pulled
    /\ Len(RecordsOf(delivered[Len(delivered)])) > 0
    /\ pc = "completed"

\* the batch the upstream has just answered the pull with, in a step
Arrived == delivered'[Len(delivered')]

\* C16: a batch with an empty or absent event list emits nothing and leaves
\* the request pending: the same request pulls again.  A request completes
\* only with an event of a non-empty batch, with the upstream's end or error,
\* or with end-of-stream on a batch that arrives while closed; one request
\* can make more than one pull.
C16_EmptyBatchesSkipped ==
    /\ [][(Len(delivered') > Len(delivered) /\ ~closed /\ RecordsOf(Arrived) = << >>) =>
             /\ InFlight /\ InFlight'
             /\ emitted' = emitted
             /\ last' = last
             /\ pulls' = pulls + 1
             /\ requestPulls' = requestPulls + 1]_vars
    /\ [][(InFlight /\ ~InFlight') =>
             \/ /\ Len(emitted') = Len(emitted) + 1
                /\ last' = "value"
                /\ ~closed
                /\ Len(delivered') > Len(delivered)
                /\ RecordsOf(Arrived) # << >>
             \/ /\ source' = "ended"
                /\ last' = "done"
                /\ emitted' = emitted
             \/ /\ source' = "failed"
                /\ last' = "error"
                /\ emitted' = emitted
             \/ /\ closed
                /\ Len(delivered') > Len(delivered)
                /\ last' = "done"
                /\ emitted' = emitted]_vars
    /\ [](\A k \in DOMAIN emitted : RecordsOf(delivered[emitted[k].batch]) # << >>)

C16_Witness ==
    /\ Len(delivered) = 2
    /\ delivered[1].events = None
    /\ requestPulls = 2
    /\ ~InFlight
    /\ last = "value"
    /\ Len(emitted) = 1

C16_WitnessEmptyList ==
    /\ Len(delivered) = 2
    /\ delivered[1].events = Some(<< >>)
    /\ delivered[2].events = None
    /\ requestPulls = 3
    /\ source = "ended"
    /\ last = "done"

====
